---- MODULE Spec2Model ----
(***************************************************************************)
(* Bottom-up, stepwise hybrid (CPU/GPU) BFS of Totem:                      *)
(* src/src/alg/totem_bfs_stepwise_hybrid.cu.                               *)
(*                                                                         *)
(* The state is the caller's output array, the file-global state_g, the    *)
(* per-partition bfs_state_t, the pull mailboxes (inbox / outbox bitmaps)  *)
(* and the position of the engine that drives the callbacks.  Each         *)
(* callback of the file is an operator computing the callback's effect,    *)
(* and each action applies one callback to one partition.  The engine,     *)
(* the frontier tracker and the partitioner are not part of the file;      *)
(* they are modelled from their documented contract.                       *)
(***************************************************************************)
EXTENDS Integers, Sequences, FiniteSets, TLC

\* ------------------------------------------------------------------ bounds
\* Largest global vertex count of the graphs explored.
MaxVertices == 3
\* Cap of the engine's superstep counter (never reached: see C6_SuperstepBound).
MaxSupersteps == MaxVertices + 3
\* Vertices that may carry a self-loop (single_node_loop is such a graph).
LoopAt == {0}

\* ------------------------------------------------------------- constants
\* Sentinel of an unvisited / unreachable vertex (cost_t is 16 bits wide).
INF_COST == 65535
\* Content of the caller's array before the call: any value; this one is no
\* BFS level of a graph within the bounds and is not the sentinel.
PreCallContent == INF_COST - 1

\* The partitions of the platform: two processors, each a CPU or a GPU.
PIDs == {0, 1}
engine_partition_count == Cardinality(PIDs)
ProcessorTypes == {"PROCESSOR_CPU", "PROCESSOR_GPU"}

\* ------------------------------------------------------------- helpers
Max(S) == CHOOSE x \in S : \A y \in S : y <= x

\* The elements of a finite set of integers as an array indexed from 0,
\* in increasing order.
SortedArray(S) ==
  [k \in 0 .. (Cardinality(S) - 1) |->
     CHOOSE x \in S : Cardinality({y \in S : y < x}) = k]

\* Index of x in the 0-based array a (x occurs exactly once).
IndexOf(a, x) == CHOOSE k \in DOMAIN a : a[k] = x

\* --------------------------------------------------- graph and partitions
\* Undirected graphs on the vertices 0 .. nv-1: a set of pairs <<u, v>> with
\* u <= v, each standing for the two directed CSR edges u->v and v->u.
PossibleEdges(nv) ==
  {e \in (0 .. (nv - 1)) \X (0 .. (nv - 1)) :
     \/ e[1] < e[2]
     \/ (e[1] = e[2] /\ e[1] \in LoopAt)}

Nbrs(g, v) ==
  {u \in 0 .. (g.nv - 1) : <<u, v>> \in g.edges \/ <<v, u>> \in g.edges}

\* engine_vertex_count() and engine_edge_count() (directed CSR edges).
engine_vertex_count(g) == g.nv
engine_edge_count(g) ==
  Cardinality({e \in g.edges : e[1] # e[2]}) * 2
    + Cardinality({e \in g.edges : e[1] = e[2]})

Owned(g, p) == {v \in 0 .. (g.nv - 1) : g.owner[v] = p}

\* Local id of global vertex v inside its partition: its rank among the
\* vertices of the partition.
LocalId(g, v) ==
  Cardinality({u \in Owned(g, g.owner[v]) : u < v})

\* Local ids of the vertices of partition i that partition j references
\* (j has an edge into them): the rmt_nbrs table of the inbox of i for j,
\* which is also the index space of the outbox of j for i.
RmtNbrs(g, i, j) ==
  IF i = j THEN SortedArray({})
  ELSE SortedArray({LocalId(g, u) :
         u \in {w \in Owned(g, i) : \E v \in Owned(g, j) : w \in Nbrs(g, v)}})

\* The CSR edge list of local vertex lv of partition p, in increasing
\* order of the neighbour's global id.  A local neighbour is encoded by
\* its local id; a remote neighbour by its index in the outbox table.
EdgeList(g, p, lv) ==
  LET v  == SortedArray(Owned(g, p))[lv]
      ns == SortedArray(Nbrs(g, v))
  IN  [k \in DOMAIN ns |->
         LET u == ns[k]
             q == g.owner[u]
         IN  [pid |-> q,
              nbr |-> IF q = p THEN LocalId(g, u)
                      ELSE IndexOf(RmtNbrs(g, q, p), LocalId(g, u))]]

\* partition_t of partition p, as the partitioner leaves it.
MakePartition(g, p) ==
  LET mp == SortedArray(Owned(g, p))
  IN  [id           |-> p,
       type         |-> g.ptype[p],
       vertex_count |-> Cardinality(Owned(g, p)),
       map          |-> mp,
       edges        |-> [lv \in DOMAIN mp |-> EdgeList(g, p, lv)],
       inbox        |-> [q \in PIDs |->
                           [count    |-> Cardinality(DOMAIN RmtNbrs(g, p, q)),
                            rmt_nbrs |-> RmtNbrs(g, p, q)]],
       outbox       |-> [q \in PIDs |->
                           [count |-> Cardinality(DOMAIN RmtNbrs(g, q, p))]]]

\* The assignments of the vertices to partitions, one for each way of
\* splitting the vertex set into at most engine_partition_count groups: partition
\* ids are interchangeable (every processor type of every partition and
\* every order of the partitions' callbacks is explored), so the groups
\* are numbered in the order of their smallest vertex.
Owners(nv) ==
  {o \in [0 .. (nv - 1) -> PIDs] :
     \A v \in 0 .. (nv - 1) :
       \/ o[v] = 0
       \/ \E u \in 0 .. (v - 1) : o[u] = o[v] - 1}

Graphs ==
  UNION {
    [nv : {nv}, edges : SUBSET PossibleEdges(nv),
     owner : Owners(nv), ptype : [PIDs -> ProcessorTypes]]
    : nv \in 0 .. MaxVertices }

\* engine_largest_gpu_partition(): vertex count of the largest GPU partition.
engine_largest_gpu_partition(pars) ==
  Max({0} \cup {pars[p].vertex_count :
                  p \in {q \in PIDs : pars[q].type = "PROCESSOR_GPU"}})

\* engine_vertex_id_in_partition(src): the id after partitioning.
engine_vertex_id_in_partition(g, v) ==
  [pid |-> g.owner[v], vid |-> LocalId(g, v)]
GET_PARTITION_ID(id) == id.pid
GET_VERTEX_ID(id) == id.vid


\* ------------------------------------------------------------------ state
VARIABLES
  graph,       \* the global graph, its partitioning and processor types
  par,         \* partition_t of every partition
  pc,          \* position of the caller in bfs_stepwise_hybrid
  rc,          \* the value bfs_stepwise_hybrid returned
  src_arg,     \* argument src of the call
  cost_arg,    \* argument cost of the call: "NULL" or "OUT" (the array below)
  cost,        \* the caller's output array
  state_g,     \* the file-global bfs_global_state_t
  cost_h,      \* content of the host staging buffer state_g.cost_h points to
  algo_state,  \* par->algo_state of every partition
  inbox,       \* inbox[i][j]: pull_values bitmap of i's inbox for j
  inbox_s,     \* inbox_s[i][j]: its shadow pull_values_s
  outbox,      \* outbox[j][i]: pull_values bitmap of j's outbox for i
  engine,      \* the engine: configuration, superstep, phase, finished flag
  work,        \* work[p]: how far the running callback of partition p has got
  hist         \* history: callback invocation counts and output writes

vars == <<graph, par, pc, rc, src_arg, cost_arg, cost, state_g, cost_h,
          algo_state, inbox, inbox_s, outbox, engine, work, hist>>

\* PRIVATE bfs_global_state_t state_g = {NULL, NULL, 0};
StateGEmpty ==
  [cost |-> "NULL", cost_h |-> "NULL", src |-> [pid |-> 0, vid |-> 0]]

\* par->algo_state == NULL
NullState == [alloc |-> FALSE]

\* A bitmap of n bits is the set of the indices of its set bits.
bitmap_init(n) == {}
bitmap_is_set(bm, i) == i \in bm
bitmap_set(bm, i) == bm \cup {i}
bitmap_reset(bm, n) == bm \ (0 .. (n - 1))
AllBits(n) == 0 .. (n - 1)

\* frontier_init_cpu / frontier_init_gpu: two zeroed bitmaps.
frontier_init(n) == [current |-> {}, visited_last |-> {}]

\* frontier_update_bitmap_cpu / _gpu: current becomes the difference of
\* visited and the copy kept by the previous update, which then becomes
\* visited.
frontier_update_bitmap(fs, visited) ==
  [current      |-> (visited \ fs.visited_last) \cup (fs.visited_last \ visited),
   visited_last |-> visited]

\* check_special_cases without the test of the output pointer.
check_special_cases_nonull(g, src, cost_ptr, mem) ==
  LET none == [v \in DOMAIN mem |-> 0]
  IN  IF src >= engine_vertex_count(g)
      THEN [rc |-> "FAILURE", finished |-> TRUE, cost |-> mem, writes |-> none]
      ELSE IF engine_vertex_count(g) = 1
      THEN [rc |-> "SUCCESS", finished |-> TRUE,
            cost |-> [mem EXCEPT ![0] = 0],
            writes |-> [none EXCEPT ![0] = 1]]
      ELSE IF engine_edge_count(g) = 0
      THEN [rc |-> "SUCCESS", finished |-> TRUE,
            cost |-> [v \in DOMAIN mem |-> IF v = src THEN 0 ELSE INF_COST],
            writes |-> [v \in DOMAIN mem |-> IF v = src THEN 2 ELSE 1]]
      ELSE [rc |-> "SUCCESS", finished |-> FALSE, cost |-> mem, writes |-> none]

\* check_special_cases testing the single-vertex graph before the range
\* of the source.
check_special_cases_single_first(g, src, cost_ptr, mem) ==
  LET none == [v \in DOMAIN mem |-> 0]
  IN  IF engine_vertex_count(g) = 1 /\ cost_ptr # "NULL"
      THEN [rc |-> "SUCCESS", finished |-> TRUE,
            cost |-> [mem EXCEPT ![0] = 0],
            writes |-> [none EXCEPT ![0] = 1]]
      ELSE IF (src >= engine_vertex_count(g)) \/ (cost_ptr = "NULL")
      THEN [rc |-> "FAILURE", finished |-> TRUE, cost |-> mem, writes |-> none]
      ELSE IF engine_edge_count(g) = 0
      THEN [rc |-> "SUCCESS", finished |-> TRUE,
            cost |-> [v \in DOMAIN mem |-> IF v = src THEN 0 ELSE INF_COST],
            writes |-> [v \in DOMAIN mem |-> IF v = src THEN 2 ELSE 1]]
      ELSE [rc |-> "SUCCESS", finished |-> FALSE, cost |-> mem, writes |-> none]

\* check_special_cases whose edge-less branch omits cost[src] = 0.
check_special_cases_no_src(g, src, cost_ptr, mem) ==
  LET none == [v \in DOMAIN mem |-> 0]
  IN  IF (src >= engine_vertex_count(g)) \/ (cost_ptr = "NULL")
      THEN [rc |-> "FAILURE", finished |-> TRUE, cost |-> mem, writes |-> none]
      ELSE IF engine_vertex_count(g) = 1
      THEN [rc |-> "SUCCESS", finished |-> TRUE,
            cost |-> [mem EXCEPT ![0] = 0],
            writes |-> [none EXCEPT ![0] = 1]]
      ELSE IF engine_edge_count(g) = 0
      THEN [rc |-> "SUCCESS", finished |-> TRUE,
            cost |-> [v \in DOMAIN mem |-> INF_COST],
            writes |-> [v \in DOMAIN mem |-> 1]]
      ELSE [rc |-> "SUCCESS", finished |-> FALSE, cost |-> mem, writes |-> none]

\* check_special_cases: rc, *finished and the caller's array afterwards;
\* writes counts the stores into each entry of the array.
check_special_cases(g, src, cost_ptr, mem) ==
  LET none == [v \in DOMAIN mem |-> 0]
  IN  IF (src >= engine_vertex_count(g)) \/ (cost_ptr = "NULL")
      THEN [rc |-> "FAILURE", finished |-> TRUE, cost |-> mem, writes |-> none]
      ELSE IF engine_vertex_count(g) = 1
      THEN [rc |-> "SUCCESS", finished |-> TRUE,
            cost |-> [mem EXCEPT ![0] = 0],
            writes |-> [none EXCEPT ![0] = 1]]
      ELSE IF engine_edge_count(g) = 0
      THEN [rc |-> "SUCCESS", finished |-> TRUE,
            cost |-> [v \in DOMAIN mem |-> IF v = src THEN 0 ELSE INF_COST],
            writes |-> [v \in DOMAIN mem |-> IF v = src THEN 2 ELSE 1]]
      ELSE [rc |-> "SUCCESS", finished |-> FALSE, cost |-> mem, writes |-> none]

\* The bitmap that the pointer state->frontier[pid] of partition p
\* designates: NULL after calloc, the outbox buffer of p for pid, or the
\* frontier tracker's current bitmap.
FrontierBitmap(p, st, obox, pid) ==
  CASE st.frontier[pid] = "OUTBOX"  -> obox[pid]
    [] st.frontier[pid] = "CURRENT" -> st.frontier_state.current
    [] OTHER                        -> {}

\* bfs_init_cpu that clears the inboxes but not their shadows.
bfs_init_cpu_no_shadow(p, st, sg, ibox, ibox_s) ==
  LET vis0 == bitmap_init(p.vertex_count)
      vis1 == IF GET_PARTITION_ID(sg.src) = p.id
              THEN bitmap_set(vis0, GET_VERTEX_ID(sg.src)) ELSE vis0
  IN  [state |->
         [st EXCEPT
            !.visited = vis1,
            !.frontier = [pid \in PIDs |->
               IF pid # p.id /\ p.outbox[pid].count # 0
               THEN "OUTBOX" ELSE st.frontier[pid]],
            !.frontier_state = frontier_init(p.vertex_count)],
       inbox |-> [pid \in PIDs |->
          IF pid # p.id /\ p.inbox[pid].count # 0
          THEN bitmap_reset(ibox[pid], p.inbox[pid].count) ELSE ibox[pid]],
       inbox_s |-> ibox_s]

\* bfs_init_cpu: the visited bitmap, the frontier pointers of the remote
\* partitions, the cleared inboxes and shadows, the source bit, the tracker.
bfs_init_cpu(p, st, sg, ibox, ibox_s) ==
  LET vis0 == bitmap_init(p.vertex_count)
      vis1 == IF GET_PARTITION_ID(sg.src) = p.id
              THEN bitmap_set(vis0, GET_VERTEX_ID(sg.src)) ELSE vis0
  IN  [state |->
         [st EXCEPT
            !.visited = vis1,
            !.frontier = [pid \in PIDs |->
               IF pid # p.id /\ p.outbox[pid].count # 0
               THEN "OUTBOX" ELSE st.frontier[pid]],
            !.frontier_state = frontier_init(p.vertex_count)],
       inbox |-> [pid \in PIDs |->
          IF pid # p.id /\ p.inbox[pid].count # 0
          THEN bitmap_reset(ibox[pid], p.inbox[pid].count) ELSE ibox[pid]],
       inbox_s |-> [pid \in PIDs |->
          IF pid # p.id /\ p.inbox[pid].count # 0
          THEN bitmap_reset(ibox_s[pid], p.inbox[pid].count) ELSE ibox_s[pid]]]

\* bfs_init_gpu with bfs_init_bu_kernel: the same on device memory.
bfs_init_gpu(p, st, sg, ibox, ibox_s) ==
  LET vis0 == bitmap_init(p.vertex_count)
      vis1 == IF GET_PARTITION_ID(sg.src) = p.id
              THEN bitmap_set(vis0, GET_VERTEX_ID(sg.src)) ELSE vis0
  IN  [state |->
         [st EXCEPT
            !.visited = vis1,
            !.frontier = [pid \in PIDs |->
               IF pid # p.id /\ p.outbox[pid].count # 0
               THEN "OUTBOX" ELSE st.frontier[pid]],
            !.frontier_state = frontier_init(p.vertex_count)],
       inbox |-> [pid \in PIDs |->
          IF pid # p.id /\ p.inbox[pid].count # 0
          THEN bitmap_reset(ibox[pid], p.inbox[pid].count) ELSE ibox[pid]],
       inbox_s |-> [pid \in PIDs |->
          IF pid # p.id /\ p.inbox[pid].count # 0
          THEN bitmap_reset(ibox_s[pid], p.inbox[pid].count) ELSE ibox_s[pid]]]

\* calloc(1, sizeof(bfs_state_t))
CallocState ==
  [alloc |-> TRUE, cost |-> <<>>, visited |-> {},
   frontier |-> [pid \in PIDs |-> "NULL"],
   level |-> 0, frontier_state |-> [current |-> {}, visited_last |-> {}]]

\* bfs_init that leaves the source's cost at INF_COST.
bfs_init_no_src_cost(p, old, sg, ibox, ibox_s) ==
  IF p.vertex_count = 0
  THEN [state |-> old, inbox |-> ibox, inbox_s |-> ibox_s]
  ELSE
    LET r  == IF p.type = "PROCESSOR_CPU"
              THEN bfs_init_cpu(p, CallocState, sg, ibox, ibox_s)
              ELSE bfs_init_gpu(p, CallocState, sg, ibox, ibox_s)
        c0 == [v \in 0 .. (p.vertex_count - 1) |-> INF_COST]
    IN  [r EXCEPT !.state = [r.state EXCEPT !.cost = c0, !.level = 0]]

\* bfs_init: par->algo_state and the partition's inboxes afterwards.
bfs_init(p, old, sg, ibox, ibox_s) ==
  IF p.vertex_count = 0
  THEN [state |-> old, inbox |-> ibox, inbox_s |-> ibox_s]
  ELSE
    LET r  == IF p.type = "PROCESSOR_CPU"
              THEN bfs_init_cpu(p, CallocState, sg, ibox, ibox_s)
              ELSE bfs_init_gpu(p, CallocState, sg, ibox, ibox_s)
        c0 == [v \in 0 .. (p.vertex_count - 1) |-> INF_COST]
        c1 == IF GET_PARTITION_ID(sg.src) = p.id
              THEN [c0 EXCEPT ![GET_VERTEX_ID(sg.src)] = 0] ELSE c0
    IN  [r EXCEPT !.state = [r.state EXCEPT !.cost = c1, !.level = 0]]


\* The loop body without the test of the vertex's own visited bit.
bu_vertex_marks_revisit(p, st, obox, vertex_id) ==
  \E i \in DOMAIN p.edges[vertex_id] :
    LET nbr_pid == p.edges[vertex_id][i].pid
        nbr     == p.edges[vertex_id][i].nbr
    IN  bitmap_is_set(FrontierBitmap(p.id, st, obox, nbr_pid), nbr)

\* One iteration of the vertex loop of bfs_bu_step (one worker's vertex):
\* TRUE when the unvisited vertex finds a neighbour whose bit is set in the
\* frontier bitmap of the neighbour's partition (the scan breaks there).
bu_vertex_marks(p, st, obox, vertex_id) ==
  /\ ~bitmap_is_set(st.visited, vertex_id)
  /\ \E i \in DOMAIN p.edges[vertex_id] :
       LET nbr_pid == p.edges[vertex_id][i].pid
           nbr     == p.edges[vertex_id][i].nbr
       IN  bitmap_is_set(FrontierBitmap(p.id, st, obox, nbr_pid), nbr)

\* bfs_bu_step that stores the cost but does not set the visited bit.
bfs_bu_step_no_bit(p, st, obox, fin) ==
  LET marked == {v \in 0 .. (p.vertex_count - 1) : bu_vertex_marks(p, st, obox, v)}
  IN  [state |->
         [st EXCEPT
            !.cost = [v \in DOMAIN st.cost |->
                        IF v \in marked THEN st.level + 1 ELSE st.cost[v]]],
       finished |-> IF marked # {} THEN FALSE ELSE fin,
       written |-> marked]

\* bfs_bu_step storing state->level instead of state->level + 1.
bfs_bu_step_level(p, st, obox, fin) ==
  LET marked == {v \in 0 .. (p.vertex_count - 1) : bu_vertex_marks(p, st, obox, v)}
  IN  [state |->
         [st EXCEPT
            !.visited = st.visited \cup marked,
            !.cost = [v \in DOMAIN st.cost |->
                        IF v \in marked THEN st.level ELSE st.cost[v]]],
       finished |-> IF marked # {} THEN FALSE ELSE fin,
       written |-> marked]

\* bfs_bu_step: the OpenMP loop over the partition's vertices with its
\* reduction of finished, then the store into *(state->finished).
bfs_bu_step(p, st, obox, fin) ==
  LET marked == {v \in 0 .. (p.vertex_count - 1) : bu_vertex_marks(p, st, obox, v)}
  IN  [state |->
         [st EXCEPT
            !.visited = st.visited \cup marked,
            !.cost = [v \in DOMAIN st.cost |->
                        IF v \in marked THEN st.level + 1 ELSE st.cost[v]]],
       finished |-> IF marked # {} THEN FALSE ELSE fin,
       written |-> marked]

\* bfs_bu_kernel without the store into *(state.finished).
bfs_bu_kernel_no_report(p, st, obox, fin) ==
  LET marked == {v \in 0 .. (p.vertex_count - 1) : bu_vertex_marks(p, st, obox, v)}
  IN  [state |->
         [st EXCEPT
            !.visited = st.visited \cup marked,
            !.cost = [v \in DOMAIN st.cost |->
                        IF v \in marked THEN st.level + 1 ELSE st.cost[v]]],
       finished |-> fin,
       written |-> marked]

\* bfs_bu_kernel: one device thread per vertex, same test and stores.
bfs_bu_kernel(p, st, obox, fin) ==
  LET marked == {v \in 0 .. (p.vertex_count - 1) : bu_vertex_marks(p, st, obox, v)}
  IN  [state |->
         [st EXCEPT
            !.visited = st.visited \cup marked,
            !.cost = [v \in DOMAIN st.cost |->
                        IF v \in marked THEN st.level + 1 ELSE st.cost[v]]],
       finished |-> IF marked # {} THEN FALSE ELSE fin,
       written |-> marked]

\* The orders in which the n edges of a vertex may lie in the edge array.
ScanOrders(n) ==
  {f \in [0 .. (n - 1) -> 0 .. (n - 1)] :
     \A a \in 0 .. (n - 1) : \A b \in 0 .. (n - 1) : (f[a] = f[b]) => (a = b)}

\* The edge scan reading the visited bitmap of the own partition for a
\* local neighbour instead of the frontier bitmap.
bu_vertex_scan_visited(p, st, obox, vertex_id, ord) ==
  LET es     == p.edges[vertex_id]
      bit(k) == IF es[ord[k]].pid = p.id
                THEN bitmap_is_set(st.visited, es[ord[k]].nbr)
                ELSE bitmap_is_set(FrontierBitmap(p.id, st, obox, es[ord[k]].pid),
                                   es[ord[k]].nbr)
      hits   == {k \in DOMAIN ord : bit(k)}
      last   == IF hits = {} THEN Cardinality(DOMAIN ord)
                ELSE CHOOSE k \in hits : \A j \in hits : k <= j
  IN  IF bitmap_is_set(st.visited, vertex_id)
      THEN [skipped |-> TRUE, marks |-> FALSE, reads |-> {}]
      ELSE [skipped |-> FALSE, marks |-> hits # {},
            reads |-> {[pid |-> es[ord[k]].pid, nbr |-> es[ord[k]].nbr, bit |-> bit(k)] :
                         k \in {j \in DOMAIN ord : j <= last}}]

\* One iteration of the vertex loop, the edges of the vertex lying in the
\* order ord: the test of the own visited bit, then the frontier bits read
\* one edge after the other up to the first one found set (the break).
bu_vertex_scan(p, st, obox, vertex_id, ord) ==
  LET es     == p.edges[vertex_id]
      bit(k) == bitmap_is_set(FrontierBitmap(p.id, st, obox, es[ord[k]].pid),
                              es[ord[k]].nbr)
      hits   == {k \in DOMAIN ord : bit(k)}
      last   == IF hits = {} THEN Cardinality(DOMAIN ord)
                ELSE CHOOSE k \in hits : \A j \in hits : k <= j
  IN  IF bitmap_is_set(st.visited, vertex_id)
      THEN [skipped |-> TRUE, marks |-> FALSE, reads |-> {}]
      ELSE [skipped |-> FALSE, marks |-> hits # {},
            reads |-> {[pid |-> es[ord[k]].pid, nbr |-> es[ord[k]].nbr, bit |-> bit(k)] :
                         k \in {j \in DOMAIN ord : j <= last}}]

\* A worker that also raises state->level when it marks its vertex.
bu_worker_level_inc(p, st, obox, vertex_id, ord) ==
  LET r == bu_vertex_scan(p, st, obox, vertex_id, ord)
  IN  [state |->
         IF r.marks
         THEN [st EXCEPT !.visited = bitmap_set(st.visited, vertex_id),
                         !.cost[vertex_id] = st.level + 1,
                         !.level = st.level + 1]
         ELSE st,
       finished |-> ~r.marks,
       written  |-> IF r.marks THEN {vertex_id} ELSE {},
       skipped  |-> r.skipped,
       reads    |-> r.reads]

\* The stores of one iteration of the vertex loop (one CPU worker's
\* iteration, one device thread): the visited bit and the cost of its own
\* vertex, and its private finished.
bu_worker(p, st, obox, vertex_id, ord) ==
  LET r == bu_vertex_scan(p, st, obox, vertex_id, ord)
  IN  [state |->
         IF r.marks
         THEN [st EXCEPT !.visited = bitmap_set(st.visited, vertex_id),
                         !.cost[vertex_id] = st.level + 1]
         ELSE st,
       finished |-> ~r.marks,
       written  |-> IF r.marks THEN {vertex_id} ELSE {},
       skipped  |-> r.skipped,
       reads    |-> r.reads]

\* Publishing the tracker's current bitmap without updating the tracker.
bfs_stepwise_publish_no_update(p, st) ==
  [st EXCEPT !.frontier[p.id] = "CURRENT"]

\* The first two statements of bfs_stepwise_cpu / bfs_stepwise_gpu: update
\* the frontier tracker and publish its current bitmap in the own slot.
bfs_stepwise_publish(p, st) ==
  [st EXCEPT
     !.frontier_state = frontier_update_bitmap(st.frontier_state, st.visited),
     !.frontier[p.id] = "CURRENT"]

\* bfs_stepwise_cpu: update the frontier, publish it in the own slot, step.
bfs_stepwise_cpu(p, st, obox, fin) ==
  LET st1 == [st EXCEPT
                !.frontier_state = frontier_update_bitmap(st.frontier_state, st.visited)]
      st2 == [st1 EXCEPT !.frontier[p.id] = "CURRENT"]
  IN  bfs_bu_step(p, st2, obox, fin)

\* bfs_stepwise_gpu: the same, the step being the kernel on stream 1.
bfs_stepwise_gpu(p, st, obox, fin) ==
  LET st1 == [st EXCEPT
                !.frontier_state = frontier_update_bitmap(st.frontier_state, st.visited)]
      st2 == [st1 EXCEPT !.frontier[p.id] = "CURRENT"]
  IN  bfs_bu_kernel(p, st2, obox, fin)

\* bfs that raises the level before the step instead of after it.
bfs_level_before(p, st, superstep, obox, fin) ==
  IF p.vertex_count = 0
  THEN [state |-> st, finished |-> fin, written |-> {}]
  ELSE IF superstep = 1
  THEN [state |-> st, finished |-> FALSE, written |-> {}]
  ELSE
    LET st0 == [st EXCEPT !.level = st.level + 1]
    IN  IF p.type = "PROCESSOR_CPU"
        THEN bfs_stepwise_cpu(p, st0, obox, fin)
        ELSE bfs_stepwise_gpu(p, st0, obox, fin)

\* bfs without the return of the first superstep.
bfs_no_skip(p, st, superstep, obox, fin) ==
  IF p.vertex_count = 0
  THEN [state |-> st, finished |-> fin, written |-> {}]
  ELSE
    LET r == IF p.type = "PROCESSOR_CPU"
             THEN bfs_stepwise_cpu(p, st, obox, fin)
             ELSE bfs_stepwise_gpu(p, st, obox, fin)
    IN  [r EXCEPT !.state = [r.state EXCEPT !.level = r.state.level + 1]]

\* bfs that raises the level only after a step that stored a cost.
bfs_level_on_visit(p, st, superstep, obox, fin) ==
  IF p.vertex_count = 0
  THEN [state |-> st, finished |-> fin, written |-> {}]
  ELSE IF superstep = 1
  THEN [state |-> st, finished |-> FALSE, written |-> {}]
  ELSE
    LET r == IF p.type = "PROCESSOR_CPU"
             THEN bfs_stepwise_cpu(p, st, obox, fin)
             ELSE bfs_stepwise_gpu(p, st, obox, fin)
    IN  IF r.written = {} THEN r
        ELSE [r EXCEPT !.state = [r.state EXCEPT !.level = r.state.level + 1]]

\* bfs testing the superstep before the vertex count.
bfs_superstep_first(p, st, superstep, obox, fin) ==
  IF superstep = 1
  THEN [state |-> st, finished |-> FALSE, written |-> {}]
  ELSE IF p.vertex_count = 0
  THEN [state |-> st, finished |-> fin, written |-> {}]
  ELSE
    LET r == IF p.type = "PROCESSOR_CPU"
             THEN bfs_stepwise_cpu(p, st, obox, fin)
             ELSE bfs_stepwise_gpu(p, st, obox, fin)
    IN  [r EXCEPT !.state = [r.state EXCEPT !.level = r.state.level + 1]]

\* bfs: the per-superstep kernel callback.  finished: the engine's flag
\* afterwards; written: the local vertices whose cost the call stored.
bfs(p, st, superstep, obox, fin) ==
  IF p.vertex_count = 0
  THEN [state |-> st, finished |-> fin, written |-> {}]
  ELSE IF superstep = 1
  THEN [state |-> st, finished |-> FALSE, written |-> {}]
  ELSE
    LET r == IF p.type = "PROCESSOR_CPU"
             THEN bfs_stepwise_cpu(p, st, obox, fin)
             ELSE bfs_stepwise_gpu(p, st, obox, fin)
    IN  [r EXCEPT !.state = [r.state EXCEPT !.level = r.state.level + 1]]

\* bfs_gather_cpu testing the visited bit at the inbox index itself instead
\* of the local vertex the index points to.
bfs_gather_cpu_no_lookup(p, st, ib, bits) ==
  bits \cup {index \in 0 .. (ib.count - 1) : bitmap_is_set(st.visited, index)}

\* bfs_gather_cpu flipping the inbox bit of a visited vertex instead of
\* setting it.
bfs_gather_cpu_toggle(p, st, ib, bits) ==
  LET hit == {index \in 0 .. (ib.count - 1) :
                bitmap_is_set(st.visited, ib.rmt_nbrs[index])}
  IN  (bits \ hit) \cup (hit \ bits)

\* bfs_gather_cpu: the inbox bitmap after the loop over its entries.
bfs_gather_cpu(p, st, ib, bits) ==
  bits \cup {index \in 0 .. (ib.count - 1) :
               bitmap_is_set(st.visited, ib.rmt_nbrs[index])}

\* bfs_gather_gpu testing the tracker's current bitmap instead of visited.
bfs_gather_gpu_frontier(p, st, ib, bits) ==
  bits \cup {index \in 0 .. (ib.count - 1) :
               bitmap_is_set(st.frontier_state.current, ib.rmt_nbrs[index])}

\* bfs_gather_gpu: one device thread per inbox entry.
bfs_gather_gpu(p, st, ib, bits) ==
  bits \cup {index \in 0 .. (ib.count - 1) :
               bitmap_is_set(st.visited, ib.rmt_nbrs[index])}

\* bfs_gather: the inboxes of partition p afterwards.
bfs_gather(p, st, ibox) ==
  [rmt_pid \in PIDs |->
     IF rmt_pid = p.id THEN ibox[rmt_pid]
     ELSE IF p.inbox[rmt_pid].count = 0 THEN ibox[rmt_pid]
     ELSE IF p.type = "PROCESSOR_CPU"
     THEN bfs_gather_cpu(p, st, p.inbox[rmt_pid], ibox[rmt_pid])
     ELSE bfs_gather_gpu(p, st, p.inbox[rmt_pid], ibox[rmt_pid])]

\* bfs_aggregate storing at the local id instead of par->map[v].
bfs_aggregate_no_map(p, st, sg, buf, out) ==
  IF p.vertex_count = 0
  THEN [cost_h |-> buf, cost |-> out,
        writes |-> [v \in DOMAIN out |-> 0], asserts |-> TRUE]
  ELSE
    LET gpu      == p.type = "PROCESSOR_GPU"
        buf1     == IF gpu
                    THEN [k \in DOMAIN buf |->
                            IF k < p.vertex_count THEN st.cost[k] ELSE buf[k]]
                    ELSE buf
        src_cost == IF gpu THEN buf1 ELSE st.cost
    IN  [cost_h  |-> buf1,
         cost    |-> [g \in DOMAIN out |->
                        IF g < p.vertex_count THEN src_cost[g] ELSE out[g]],
         writes  |-> [g \in DOMAIN out |-> IF g < p.vertex_count THEN 1 ELSE 0],
         asserts |-> /\ (gpu => sg.cost_h # "NULL")
                     /\ (gpu => p.vertex_count <= Cardinality(DOMAIN buf))
                     /\ sg.cost # "NULL"]

\* bfs_aggregate: the staging buffer, the output array and the number of
\* stores into each of its entries; asserts: whether both assertions held.
bfs_aggregate(p, st, sg, buf, out) ==
  IF p.vertex_count = 0
  THEN [cost_h |-> buf, cost |-> out,
        writes |-> [v \in DOMAIN out |-> 0], asserts |-> TRUE]
  ELSE
    LET gpu      == p.type = "PROCESSOR_GPU"
        buf1     == IF gpu
                    THEN [k \in DOMAIN buf |->
                            IF k < p.vertex_count THEN st.cost[k] ELSE buf[k]]
                    ELSE buf
        src_cost == IF gpu THEN buf1 ELSE st.cost
        targets  == {p.map[v] : v \in 0 .. (p.vertex_count - 1)}
    IN  [cost_h  |-> buf1,
         cost    |-> [g \in DOMAIN out |->
                        IF g \in targets
                        THEN src_cost[IndexOf(p.map, g)] ELSE out[g]],
         writes  |-> [g \in DOMAIN out |->
                        Cardinality({v \in 0 .. (p.vertex_count - 1) : p.map[v] = g})],
         asserts |-> /\ (gpu => sg.cost_h # "NULL")
                     /\ (gpu => p.vertex_count <= Cardinality(DOMAIN buf))
                     /\ sg.cost # "NULL"]

\* The first half of bfs_aggregate without the copy of a GPU partition's
\* costs into the staging buffer.
bfs_aggregate_stage_no_copy(p, st, sg, buf) ==
  [cost_h   |-> buf,
   src_cost |-> IF p.type = "PROCESSOR_GPU" THEN "STAGING" ELSE "STATE",
   asserts  |-> (p.type = "PROCESSOR_GPU") => (sg.cost_h # "NULL")]

\* bfs_aggregate of a partition with vertices up to its store loop: the
\* choice of src_cost, for a GPU partition after the assertion and the
\* copy of its costs into the staging buffer state_g.cost_h.
bfs_aggregate_stage(p, st, sg, buf) ==
  IF p.type = "PROCESSOR_GPU"
  THEN [cost_h   |-> [k \in DOMAIN buf |->
                        IF k < p.vertex_count THEN st.cost[k] ELSE buf[k]],
        src_cost |-> "STAGING",
        asserts  |-> /\ sg.cost_h # "NULL"
                     /\ p.vertex_count <= Cardinality(DOMAIN buf)]
  ELSE [cost_h |-> buf, src_cost |-> "STATE", asserts |-> TRUE]

\* The store loop of bfs_aggregate: state_g.cost[par->map[v]] = src_cost[v],
\* src_cost being the partition's cost array or the staging buffer as it is
\* when the loop runs.
bfs_aggregate_store(p, st, sg, buf, out, src_cost) ==
  LET from    == IF src_cost = "STAGING" THEN buf ELSE st.cost
      targets == {p.map[v] : v \in 0 .. (p.vertex_count - 1)}
  IN  [cost    |-> [g \in DOMAIN out |->
                      IF g \in targets THEN from[IndexOf(p.map, g)] ELSE out[g]],
       writes  |-> [g \in DOMAIN out |->
                      Cardinality({v \in 0 .. (p.vertex_count - 1) : p.map[v] = g})],
       asserts |-> sg.cost # "NULL"]

\* bfs_finalize: par->algo_state afterwards.
bfs_finalize(p, st) ==
  IF p.vertex_count = 0 THEN st ELSE NullState


\* bfs_stepwise_hybrid, from its entry to the call of engine_config:
\* the special cases, then the global state and the engine configuration.
bfs_stepwise_hybrid(g, src, cost_ptr, mem, sg) ==
  LET r == check_special_cases(g, src, cost_ptr, mem)
  IN  IF r.finished
      THEN [returned |-> TRUE, rc |-> r.rc, cost |-> r.cost,
            writes |-> r.writes, state_g |-> sg, config |-> FALSE]
      ELSE [returned |-> FALSE, rc |-> "NONE", cost |-> r.cost,
            writes |-> r.writes,
            state_g |-> [sg EXCEPT !.cost = cost_ptr,
                                   !.src = engine_vertex_id_in_partition(g, src)],
            config |-> TRUE]

\* The staging buffer sized to the smallest GPU partition that has
\* vertices instead of the largest.
bfs_stepwise_hybrid_malloc_smallest(pars, sg, buf) ==
  LET sizes == {pars[p].vertex_count : p \in
                  {q \in PIDs : /\ pars[q].type = "PROCESSOR_GPU"
                                /\ pars[q].vertex_count # 0}}
  IN  IF sizes # {}
      THEN LET least == CHOOSE n \in sizes : \A m \in sizes : n <= m
           IN  [state_g |-> [sg EXCEPT !.cost_h = "ALLOCATED"],
                cost_h  |-> [k \in 0 .. (least - 1) |-> PreCallContent]]
      ELSE [state_g |-> sg, cost_h |-> buf]

\* bfs_stepwise_hybrid between engine_config and engine_execute: the host
\* staging buffer, one slot per vertex of the largest GPU partition.
bfs_stepwise_hybrid_malloc(pars, sg, buf) ==
  IF engine_largest_gpu_partition(pars) # 0
  THEN [state_g |-> [sg EXCEPT !.cost_h = "ALLOCATED"],
        cost_h  |-> [k \in 0 .. (engine_largest_gpu_partition(pars) - 1) |->
                       PreCallContent]]
  ELSE [state_g |-> sg, cost_h |-> buf]

\* The clean-up without the memset of state_g.
bfs_stepwise_hybrid_cleanup_no_memset(pars, sg, buf) ==
  [state_g |-> [sg EXCEPT !.cost_h = IF engine_largest_gpu_partition(pars) # 0
                                     THEN "FREED" ELSE sg.cost_h],
   cost_h  |-> IF engine_largest_gpu_partition(pars) # 0
               THEN SortedArray({}) ELSE buf,
   freed   |-> engine_largest_gpu_partition(pars) # 0,
   rc      |-> "SUCCESS"]

\* bfs_stepwise_hybrid after engine_execute: free the staging buffer, clear
\* the global state, return SUCCESS.  freed: whether totem_free was called.
bfs_stepwise_hybrid_cleanup(pars, sg, buf) ==
  [state_g |-> StateGEmpty,
   cost_h  |-> IF engine_largest_gpu_partition(pars) # 0
               THEN SortedArray({}) ELSE buf,
   freed   |-> engine_largest_gpu_partition(pars) # 0,
   rc      |-> "SUCCESS"]

\* ------------------------------------------------------------------ engine
EngineIdle ==
  [configured |-> FALSE, superstep |-> 0, phase |-> "none",
   done |-> {}, finished |-> TRUE]

\* No callback of the partition is under way.
WorkIdle == [at |-> "idle"]

HistEmpty(nv) ==
  [init      |-> [p \in PIDs |-> 0],
   compute   |-> [p \in PIDs |-> 0],
   gather    |-> [p \in PIDs |-> 0],
   aggregate |-> [p \in PIDs |-> 0],
   finalize  |-> [p \in PIDs |-> 0],
   reported  |-> {},
   prev_reported |-> {},
   marked    |-> {},
   writes    |-> [v \in 0 .. (nv - 1) |-> 0],
   step_writes |-> [v \in 0 .. (nv - 1) |-> 0],
   visited_at  |-> [v \in 0 .. (nv - 1) |-> 0],
   stale_reads |-> TRUE,
   unseen      |-> {},
   staging_clobbered |-> FALSE,
   mallocs   |-> 0,
   frees     |-> 0,
   asserts   |-> TRUE]

\* engine_config: keep the callbacks; the init callback then runs for every
\* partition.
engine_config(e) ==
  [e EXCEPT !.configured = TRUE, !.phase = "init", !.done = {}]

\* The engine at the start of a superstep: advance the counter, set the
\* finished flag, which the compute callbacks may clear.
superstep_next(e) ==
  [e EXCEPT !.superstep = e.superstep + 1, !.phase = "compute",
            !.done = {}, !.finished = TRUE]

\* The pull communication that ends a superstep: the inbox bitmap of i
\* for j is copied to the outbox bitmap of j for i.
grooves_launch_communications(pars, ibox, obox) ==
  [j \in PIDs |-> [i \in PIDs |->
     IF i # j /\ pars[j].outbox[i].count # 0 THEN ibox[i][j] ELSE obox[j][i]]]

\* An engine that leaves the loop after every superstep.
engine_superstep_end_once(e) ==
  [e EXCEPT !.phase = "aggregate", !.done = {}]

\* The engine's decision at the end of a superstep.
engine_superstep_end(e) ==
  IF e.finished
  THEN [e EXCEPT !.phase = "aggregate", !.done = {}]
  ELSE superstep_next(e)

Init ==
  /\ graph \in Graphs
  /\ par = [p \in PIDs |-> MakePartition(graph, p)]
  /\ pc = "idle"
  /\ rc = "NONE"
  /\ src_arg = 0
  /\ cost_arg = "NULL"
  /\ cost = [v \in 0 .. (graph.nv - 1) |-> PreCallContent]
  /\ state_g = StateGEmpty
  /\ cost_h = SortedArray({})
  /\ algo_state = [p \in PIDs |-> NullState]
  /\ inbox = [i \in PIDs |-> [j \in PIDs |-> AllBits(par[i].inbox[j].count)]]
  /\ inbox_s = [i \in PIDs |-> [j \in PIDs |-> AllBits(par[i].inbox[j].count)]]
  /\ outbox = [j \in PIDs |-> [i \in PIDs |-> AllBits(par[j].outbox[i].count)]]
  /\ engine = EngineIdle
  /\ work = [p \in PIDs |-> WorkIdle]
  /\ hist = HistEmpty(graph.nv)

AddWrites(w, d) == [v \in DOMAIN w |-> w[v] + d[v]]

\* The caller invokes bfs_stepwise_hybrid(src, cost).
Call(src, cost_ptr) ==
  /\ pc = "idle"
  /\ LET r == bfs_stepwise_hybrid(graph, src, cost_ptr, cost, state_g)
     IN  /\ pc' = IF r.returned THEN "returned" ELSE "engine_config"
         /\ rc' = r.rc
         /\ cost' = r.cost
         /\ state_g' = r.state_g
         /\ engine' = IF r.config THEN engine_config(engine) ELSE engine
         /\ hist' = [hist EXCEPT !.writes = AddWrites(hist.writes, r.writes)]
  /\ src_arg' = src
  /\ cost_arg' = cost_ptr
  /\ UNCHANGED <<work, graph, par, cost_h, algo_state, inbox, inbox_s, outbox>>

\* engine_config runs the init callback of partition p.
InitPartition(p) ==
  /\ pc = "engine_config"
  /\ engine.phase = "init"
  /\ p \notin engine.done
  /\ LET r == bfs_init(par[p], algo_state[p], state_g, inbox[p], inbox_s[p])
     IN  /\ algo_state' = [algo_state EXCEPT ![p] = r.state]
         /\ inbox' = [inbox EXCEPT ![p] = r.inbox]
         /\ inbox_s' = [inbox_s EXCEPT ![p] = r.inbox_s]
  /\ engine' = [engine EXCEPT !.done = engine.done \cup {p}]
  /\ hist' = [hist EXCEPT
        !.init[p] = hist.init[p] + 1,
        !.visited_at = [g \in DOMAIN hist.visited_at |->
           IF /\ algo_state'[p].alloc
              /\ \E v \in algo_state'[p].visited : par[p].map[v] = g
           THEN 1 ELSE hist.visited_at[g]]]
  /\ UNCHANGED <<work, graph, par, pc, rc, src_arg, cost_arg, cost, state_g, cost_h,
                 outbox>>

\* engine_config returns; the staging buffer is allocated; engine_execute
\* starts superstep 1.
ConfigReturn ==
  /\ pc = "engine_config"
  /\ engine.phase = "init"
  /\ engine.done = PIDs
  /\ LET r == bfs_stepwise_hybrid_malloc(par, state_g, cost_h)
     IN  /\ state_g' = r.state_g
         /\ cost_h' = r.cost_h
  /\ pc' = "engine_execute"
  /\ engine' = superstep_next(engine)
  /\ hist' = [hist EXCEPT
        !.reported = {}, !.marked = {},
        !.mallocs = IF state_g'.cost_h # state_g.cost_h
                    THEN hist.mallocs + 1 ELSE hist.mallocs]
  /\ UNCHANGED <<work, graph, par, rc, src_arg, cost_arg, cost, algo_state, inbox,
                 inbox_s, outbox>>

\* The compute callback (bfs) of partition p in the current superstep.
Compute(p) ==
  /\ pc = "engine_execute"
  /\ engine.phase = "compute"
  /\ p \notin engine.done
  /\ LET r == bfs(par[p], algo_state[p], engine.superstep, outbox[p], TRUE)
     IN  /\ algo_state' = [algo_state EXCEPT ![p] = r.state]
         /\ engine' = [engine EXCEPT
                         !.done = engine.done \cup {p},
                         !.finished = engine.finished /\ r.finished]
         /\ hist' = [hist EXCEPT
               !.compute[p] = hist.compute[p] + 1,
               !.reported = IF r.finished THEN hist.reported
                            ELSE hist.reported \cup {p},
               !.marked = IF r.state.alloc /\ r.state.visited # algo_state[p].visited
                          THEN hist.marked \cup {p} ELSE hist.marked,
               !.step_writes = [g \in DOMAIN hist.step_writes |->
                  IF \E v \in r.written : par[p].map[v] = g
                  THEN hist.step_writes[g] + 1 ELSE hist.step_writes[g]],
               !.visited_at = [g \in DOMAIN hist.visited_at |->
                  IF /\ r.state.alloc
                     /\ \E v \in r.state.visited \ algo_state[p].visited :
                          par[p].map[v] = g
                  THEN engine.superstep ELSE hist.visited_at[g]]]
  /\ UNCHANGED <<work, graph, par, pc, rc, src_arg, cost_arg, cost, state_g, cost_h,
                 inbox, inbox_s, outbox>>

\* Every partition has computed: the gather callbacks follow.
ComputeDone ==
  /\ pc = "engine_execute"
  /\ engine.phase = "compute"
  /\ engine.done = PIDs
  /\ engine' = [engine EXCEPT !.phase = "gather", !.done = {}]
  /\ UNCHANGED <<work, graph, par, pc, rc, src_arg, cost_arg, cost, state_g, cost_h,
                 algo_state, inbox, inbox_s, outbox, hist>>

\* The gather callback of partition p.
Gather(p) ==
  /\ pc = "engine_execute"
  /\ engine.phase = "gather"
  /\ p \notin engine.done
  /\ inbox' = [inbox EXCEPT ![p] = bfs_gather(par[p], algo_state[p], inbox[p])]
  /\ engine' = [engine EXCEPT !.done = engine.done \cup {p}]
  /\ hist' = [hist EXCEPT !.gather[p] = hist.gather[p] + 1]
  /\ UNCHANGED <<work, graph, par, pc, rc, src_arg, cost_arg, cost, state_g, cost_h,
                 algo_state, inbox_s, outbox>>

\* The superstep barrier: communication, then another superstep unless
\* no partition reported not-finished.
SuperstepEnd ==
  /\ pc = "engine_execute"
  /\ engine.phase = "gather"
  /\ engine.done = PIDs
  /\ engine.finished \/ engine.superstep < MaxSupersteps
  /\ outbox' = grooves_launch_communications(par, inbox, outbox)
  /\ engine' = engine_superstep_end(engine)
  /\ hist' = IF engine.finished THEN hist
             ELSE [hist EXCEPT !.reported = {}, !.marked = {},
                               !.prev_reported = hist.reported]
  /\ UNCHANGED <<work, graph, par, pc, rc, src_arg, cost_arg, cost, state_g, cost_h,
                 algo_state, inbox, inbox_s>>

\* The aggregate callback of partition p.
Aggregate(p) ==
  /\ pc = "engine_execute"
  /\ engine.phase = "aggregate"
  /\ p \notin engine.done
  /\ LET r == bfs_aggregate(par[p], algo_state[p], state_g, cost_h, cost)
     IN  /\ cost_h' = r.cost_h
         /\ cost' = r.cost
         /\ hist' = [hist EXCEPT
               !.aggregate[p] = hist.aggregate[p] + 1,
               !.writes = AddWrites(hist.writes, r.writes),
               !.asserts = hist.asserts /\ r.asserts]
  /\ engine' = [engine EXCEPT !.done = engine.done \cup {p}]
  /\ UNCHANGED <<work, graph, par, pc, rc, src_arg, cost_arg, state_g, algo_state,
                 inbox, inbox_s, outbox>>

\* Every partition has aggregated: the finalize callbacks follow.
AggregateDone ==
  /\ pc = "engine_execute"
  /\ engine.phase = "aggregate"
  /\ engine.done = PIDs
  /\ engine' = [engine EXCEPT !.phase = "finalize", !.done = {}]
  /\ UNCHANGED <<work, graph, par, pc, rc, src_arg, cost_arg, cost, state_g, cost_h,
                 algo_state, inbox, inbox_s, outbox, hist>>

\* The finalize callback of partition p.
Finalize(p) ==
  /\ pc = "engine_execute"
  /\ engine.phase = "finalize"
  /\ p \notin engine.done
  /\ algo_state' = [algo_state EXCEPT ![p] = bfs_finalize(par[p], algo_state[p])]
  /\ engine' = [engine EXCEPT !.done = engine.done \cup {p}]
  /\ hist' = [hist EXCEPT !.finalize[p] = hist.finalize[p] + 1]
  /\ UNCHANGED <<work, graph, par, pc, rc, src_arg, cost_arg, cost, state_g, cost_h,
                 inbox, inbox_s, outbox>>

\* engine_execute returns; bfs_stepwise_hybrid cleans up and returns.
ExecuteReturn ==
  /\ pc = "engine_execute"
  /\ engine.phase = "finalize"
  /\ engine.done = PIDs
  /\ LET r == bfs_stepwise_hybrid_cleanup(par, state_g, cost_h)
     IN  /\ state_g' = r.state_g
         /\ cost_h' = r.cost_h
         /\ rc' = r.rc
         /\ hist' = [hist EXCEPT
               !.frees = IF r.freed THEN hist.frees + 1 ELSE hist.frees]
  /\ pc' = "returned"
  /\ engine' = [engine EXCEPT !.phase = "done", !.done = {}]
  /\ UNCHANGED <<work, graph, par, src_arg, cost_arg, cost, algo_state, inbox,
                 inbox_s, outbox>>

Next ==
  \/ \E src \in 0 .. MaxVertices, cost_ptr \in {"NULL", "OUT"} : Call(src, cost_ptr)
  \/ \E p \in PIDs : InitPartition(p)
  \/ ConfigReturn
  \/ \E p \in PIDs : Compute(p)
  \/ ComputeDone
  \/ \E p \in PIDs : Gather(p)
  \/ SuperstepEnd
  \/ \E p \in PIDs : Aggregate(p)
  \/ AggregateDone
  \/ \E p \in PIDs : Finalize(p)
  \/ ExecuteReturn

Spec == Init /\ [][Next]_vars

\* ----------------------------------------------- the step, worker by worker
\* The global vertex that the edge entry e of partition p designates.
EdgeTarget(p, e) ==
  IF e.pid = p THEN par[p].map[e.nbr]
  ELSE par[e.pid].map[par[e.pid].inbox[p].rmt_nbrs[e.nbr]]

\* The compute callback of a partition for which bfs returns before any
\* parallel loop: an empty partition, or the first superstep.
ComputeSerial(p) ==
  /\ (par[p].vertex_count = 0 \/ engine.superstep = 1)
  /\ Compute(p)

\* bfs of partition p up to the parallel loop (the kernel launch): the
\* frontier is updated and published; every vertex awaits its worker.
StepBegin(p) ==
  /\ pc = "engine_execute"
  /\ engine.phase = "compute"
  /\ p \notin engine.done
  /\ work[p] = WorkIdle
  /\ par[p].vertex_count # 0
  /\ engine.superstep # 1
  /\ algo_state' = [algo_state EXCEPT ![p] = bfs_stepwise_publish(par[p], algo_state[p])]
  /\ work' = [work EXCEPT ![p] =
        [at |-> "step", pending |-> 0 .. (par[p].vertex_count - 1),
         finished |-> TRUE, start |-> algo_state[p]]]
  /\ hist' = [hist EXCEPT !.compute[p] = hist.compute[p] + 1]
  /\ UNCHANGED <<graph, par, pc, rc, src_arg, cost_arg, cost, state_g, cost_h,
                 inbox, inbox_s, outbox, engine>>

\* One worker of the step of partition p runs the loop iteration of vertex
\* v, whose edges lie in the order ord.  A device thread clears the
\* engine's flag itself; a CPU worker clears its copy for the reduction.
Worker(p, v, ord) ==
  /\ pc = "engine_execute"
  /\ engine.phase = "compute"
  /\ work[p].at = "step"
  /\ v \in work[p].pending
  /\ LET r    == bu_worker(par[p], algo_state[p], outbox[p], v, ord)
         s    == engine.superstep
         old(u) == hist.visited_at[u] \in 1 .. (s - 1)
         g    == par[p].map[v]
     IN  /\ algo_state' = [algo_state EXCEPT ![p] = r.state]
         /\ work' = [work EXCEPT ![p].pending = work[p].pending \ {v},
                                 ![p].finished = work[p].finished /\ r.finished]
         /\ engine' = IF par[p].type = "PROCESSOR_GPU" /\ ~r.finished
                      THEN [engine EXCEPT !.finished = FALSE] ELSE engine
         /\ hist' = [hist EXCEPT
               !.step_writes[g] = hist.step_writes[g] + Cardinality(r.written),
               !.visited_at[g] = IF r.written # {} THEN s ELSE hist.visited_at[g],
               !.stale_reads =
                  /\ hist.stale_reads
                  /\ r.skipped => old(g)
                  /\ \A e \in r.reads :
                       /\ e.bit => old(EdgeTarget(p, e))
                       /\ (e.pid # p) => (e.bit <=> old(EdgeTarget(p, e))),
               !.unseen = hist.unseen \cup
                  {IF e.pid = p THEN "local" ELSE "remote" :
                     e \in {x \in r.reads :
                              ~x.bit /\ hist.visited_at[EdgeTarget(p, x)] = s}}]
  /\ UNCHANGED <<graph, par, pc, rc, src_arg, cost_arg, cost, state_g, cost_h,
                 inbox, inbox_s, outbox>>

\* Every worker of partition p is through (the end of the parallel loop,
\* the completion of the kernel): the reduced finished is stored, the level
\* is raised, bfs has returned.
StepEnd(p) ==
  /\ pc = "engine_execute"
  /\ engine.phase = "compute"
  /\ work[p].at = "step"
  /\ work[p].pending = {}
  /\ algo_state' = [algo_state EXCEPT ![p].level = algo_state[p].level + 1]
  /\ engine' = [engine EXCEPT
                  !.done = engine.done \cup {p},
                  !.finished = engine.finished /\ work[p].finished]
  /\ work' = [work EXCEPT ![p] = WorkIdle]
  /\ hist' = [hist EXCEPT
        !.reported = IF work[p].finished THEN hist.reported
                     ELSE hist.reported \cup {p},
        !.marked = IF algo_state[p].visited # work[p].start.visited
                   THEN hist.marked \cup {p} ELSE hist.marked]
  /\ UNCHANGED <<graph, par, pc, rc, src_arg, cost_arg, cost, state_g, cost_h,
                 inbox, inbox_s, outbox>>

WorkerNext ==
  \/ \E src \in 0 .. MaxVertices, cost_ptr \in {"NULL", "OUT"} : Call(src, cost_ptr)
  \/ \E p \in PIDs : InitPartition(p)
  \/ ConfigReturn
  \/ \E p \in PIDs : ComputeSerial(p)
  \/ \E p \in PIDs : StepBegin(p)
  \/ \E p \in PIDs : \E v \in 0 .. (MaxVertices - 1) :
       \E ord \in ScanOrders(IF work[p].at = "step" /\ v \in work[p].pending
                               THEN Cardinality(DOMAIN par[p].edges[v]) ELSE 0) :
         Worker(p, v, ord)
  \/ \E p \in PIDs : StepEnd(p)
  \/ ComputeDone
  \/ \E p \in PIDs : Gather(p)
  \/ SuperstepEnd
  \/ \E p \in PIDs : Aggregate(p)
  \/ AggregateDone
  \/ \E p \in PIDs : Finalize(p)
  \/ ExecuteReturn

\* A run in which the workers of the steps of all partitions interleave.
WorkerSpec == Init /\ [][WorkerNext]_vars


\* ------------------------------------------ the aggregation, in two halves
\* bfs_aggregate of partition p up to its store loop.  An empty partition
\* returns at once.  hist.staging_clobbered: a GPU partition has copied
\* into the staging buffer while another one had its costs staged there
\* and had not yet stored them.
AggregateStage(p) ==
  /\ pc = "engine_execute"
  /\ engine.phase = "aggregate"
  /\ p \notin engine.done
  /\ work[p] = WorkIdle
  /\ IF par[p].vertex_count = 0
     THEN /\ engine' = [engine EXCEPT !.done = engine.done \cup {p}]
          /\ hist' = [hist EXCEPT !.aggregate[p] = hist.aggregate[p] + 1]
          /\ UNCHANGED <<cost_h, work>>
     ELSE LET r == bfs_aggregate_stage(par[p], algo_state[p], state_g, cost_h)
          IN  /\ cost_h' = r.cost_h
              /\ work' = [work EXCEPT ![p] =
                            [at |-> "aggregate", src_cost |-> r.src_cost]]
              /\ hist' = [hist EXCEPT
                    !.aggregate[p] = hist.aggregate[p] + 1,
                    !.asserts = hist.asserts /\ r.asserts,
                    !.staging_clobbered =
                       \/ hist.staging_clobbered
                       \/ /\ r.src_cost = "STAGING"
                          /\ \E q \in PIDs \ {p} :
                               /\ work[q].at = "aggregate"
                               /\ work[q].src_cost = "STAGING"]
              /\ UNCHANGED engine
  /\ UNCHANGED <<graph, par, pc, rc, src_arg, cost_arg, cost, state_g,
                 algo_state, inbox, inbox_s, outbox>>

\* The store loop of bfs_aggregate of partition p, and its return.
AggregateStore(p) ==
  /\ pc = "engine_execute"
  /\ engine.phase = "aggregate"
  /\ work[p].at = "aggregate"
  /\ LET r == bfs_aggregate_store(par[p], algo_state[p], state_g, cost_h, cost,
                                  work[p].src_cost)
     IN  /\ cost' = r.cost
         /\ hist' = [hist EXCEPT
               !.writes = AddWrites(hist.writes, r.writes),
               !.asserts = hist.asserts /\ r.asserts]
  /\ work' = [work EXCEPT ![p] = WorkIdle]
  /\ engine' = [engine EXCEPT !.done = engine.done \cup {p}]
  /\ UNCHANGED <<graph, par, pc, rc, src_arg, cost_arg, cost_h, state_g,
                 algo_state, inbox, inbox_s, outbox>>

AggregateNext ==
  \/ \E src \in 0 .. MaxVertices, cost_ptr \in {"NULL", "OUT"} : Call(src, cost_ptr)
  \/ \E p \in PIDs : InitPartition(p)
  \/ ConfigReturn
  \/ \E p \in PIDs : Compute(p)
  \/ ComputeDone
  \/ \E p \in PIDs : Gather(p)
  \/ SuperstepEnd
  \/ \E p \in PIDs : AggregateStage(p)
  \/ \E p \in PIDs : AggregateStore(p)
  \/ AggregateDone
  \/ \E p \in PIDs : Finalize(p)
  \/ ExecuteReturn

\* A run in which the aggregate callbacks of the partitions may overlap.
AggregateSpec == Init /\ [][AggregateNext]_vars

\* ---------------------------------------------------------------- claims
\* Reference: the number of edges of a shortest path from s to v in the
\* undirected graph g, INF_COST when v is not reachable from s.
RECURSIVE DistFrom(_, _, _, _, _)
DistFrom(g, seen, front, d, v) ==
  IF v \in front THEN d
  ELSE IF front = {} THEN INF_COST
  ELSE LET nxt == {u \in 0 .. (g.nv - 1) :
                     u \notin seen /\ \E w \in front : u \in Nbrs(g, w)}
       IN  DistFrom(g, seen \cup nxt, nxt, d + 1, v)

ShortestPath(g, s, v) == DistFrom(g, {s}, {s}, 0, v)

ValidCall == src_arg < graph.nv /\ cost_arg = "OUT"
EngineRan == hist.compute # [p \in PIDs |-> 0]
NoCallbackRan ==
  /\ hist.init = [p \in PIDs |-> 0]
  /\ hist.compute = [p \in PIDs |-> 0]
  /\ hist.gather = [p \in PIDs |-> 0]
  /\ hist.aggregate = [p \in PIDs |-> 0]
  /\ hist.finalize = [p \in PIDs |-> 0]
  /\ algo_state = [p \in PIDs |-> NullState]
CostUntouched ==
  /\ cost = [v \in 0 .. (graph.nv - 1) |-> PreCallContent]
  /\ hist.writes = [v \in 0 .. (graph.nv - 1) |-> 0]

\* C1: on a graph with at least 2 vertices and at least 1 edge, for every
\* valid source and every partitioning, when the call has returned SUCCESS
\* every output entry is the shortest-path edge count from the source
\* (0 for the source itself) or INF_COST for an unreachable vertex.
C1_ShortestPathCosts ==
  (/\ pc = "returned"
   /\ rc = "SUCCESS"
   /\ graph.nv >= 2
   /\ engine_edge_count(graph) >= 1)
  => /\ cost[src_arg] = 0
     /\ \A v \in 0 .. (graph.nv - 1) : cost[v] = ShortestPath(graph, src_arg, v)

\* A run through the engine that returned a cost of 2 for a vertex owned by
\* another partition than the source's.
C1_Witness ==
  /\ pc = "returned"
  /\ rc = "SUCCESS"
  /\ EngineRan
  /\ \E v \in 0 .. (graph.nv - 1) :
       /\ cost[v] = 2
       /\ graph.owner[v] # graph.owner[src_arg]

\* C2: a source id >= the vertex count or a null output buffer makes the
\* call return FAILURE with nothing changed: no output entry written, the
\* global run state empty, the engine not configured, no callback run.
C2_InvalidInputFails ==
  (pc = "returned" /\ ~ValidCall)
  => /\ rc = "FAILURE"
     /\ CostUntouched
     /\ state_g = StateGEmpty
     /\ cost_h = SortedArray({})
     /\ engine = EngineIdle
     /\ NoCallbackRan

\* A failed call with a null buffer and a source in range, on a graph that
\* a valid call would run the engine for.
C2_Witness ==
  /\ pc = "returned"
  /\ rc = "FAILURE"
  /\ cost_arg = "NULL"
  /\ src_arg < graph.nv
  /\ engine_edge_count(graph) >= 1
  /\ graph.nv >= 2

\* C3: on a single-vertex graph (with or without a self-loop) source 0
\* with a non-null output returns SUCCESS with cost[0] = 0 and the engine
\* never runs; every other source returns FAILURE.
C3_SingleVertex ==
  (graph.nv = 1)
  => /\ pc \in {"idle", "returned"}
     /\ engine = EngineIdle
     /\ NoCallbackRan
     /\ state_g = StateGEmpty
     /\ (pc = "returned" /\ src_arg = 0 /\ cost_arg = "OUT")
          => (rc = "SUCCESS" /\ cost[0] = 0)
     /\ (pc = "returned" /\ src_arg # 0) => (rc = "FAILURE" /\ CostUntouched)

\* The single vertex with a self-loop, source 0, returned SUCCESS.
C3_Witness ==
  /\ graph.nv = 1
  /\ graph.edges = {<<0, 0>>}
  /\ pc = "returned"
  /\ rc = "SUCCESS"
  /\ cost[0] = 0

\* C4: on a graph with at least 2 vertices and no edge every valid call
\* returns SUCCESS with cost 0 at the source and INF_COST elsewhere, by
\* short-circuit: the engine is never configured nor run and the global
\* run state is never set.
C4_EdgelessGraph ==
  (graph.nv >= 2 /\ engine_edge_count(graph) = 0)
  => /\ pc \in {"idle", "returned"}
     /\ engine = EngineIdle
     /\ NoCallbackRan
     /\ state_g = StateGEmpty
     /\ (pc = "returned" /\ ValidCall)
          => /\ rc = "SUCCESS"
             /\ \A v \in 0 .. (graph.nv - 1) :
                  cost[v] = IF v = src_arg THEN 0 ELSE INF_COST

\* An edge-less graph of 3 vertices, the last vertex as the source.
C4_Witness ==
  /\ graph.nv = 3
  /\ graph.edges = {}
  /\ pc = "returned"
  /\ rc = "SUCCESS"
  /\ src_arg = 2
  /\ cost[2] = 0
  /\ cost[0] = INF_COST


\* The engine with fair scheduling: the host thread that runs
\* bfs_stepwise_hybrid and the engine's loop always takes its next step.
FairSpec == Spec /\ WF_vars(Next)

Count(p, S) == IF p \in S THEN 1 ELSE 0

\* C5: in a run that passed the special cases: init of every partition
\* precedes every step; in each superstep every partition steps and then
\* gathers; another superstep follows exactly while some partition reported
\* not-finished; aggregate runs once per partition after the loop, finalize
\* once per partition after the aggregation of all partitions.
C5_PhaseOrder ==
  LET ph == engine.phase
      n  == engine.superstep
  IN  /\ (ph = "none") => NoCallbackRan
      /\ (ph = "init") =>
           /\ \A p \in PIDs : hist.init[p] = Count(p, engine.done)
           /\ \A p \in PIDs : hist.compute[p] = 0 /\ hist.gather[p] = 0
      /\ (ph # "none" /\ ph # "init") => \A p \in PIDs : hist.init[p] = 1
      /\ (ph = "compute") =>
           \A p \in PIDs : /\ hist.compute[p] = (n - 1) + Count(p, engine.done)
                           /\ hist.gather[p] = n - 1
      /\ (ph = "gather") =>
           \A p \in PIDs : /\ hist.compute[p] = n
                           /\ hist.gather[p] = (n - 1) + Count(p, engine.done)
      /\ (ph \in {"compute", "gather"} /\ n > 1) => hist.prev_reported # {}
      /\ (ph \in {"none", "init", "compute", "gather"}) =>
           \A p \in PIDs : hist.aggregate[p] = 0 /\ hist.finalize[p] = 0
      /\ (ph \in {"aggregate", "finalize", "done"}) =>
           /\ hist.reported = {}
           /\ engine.finished
           /\ \A p \in PIDs : hist.compute[p] = n /\ hist.gather[p] = n
      /\ (ph = "aggregate") =>
           \A p \in PIDs : /\ hist.aggregate[p] = Count(p, engine.done)
                           /\ hist.finalize[p] = 0
      /\ (ph = "finalize") =>
           \A p \in PIDs : /\ hist.aggregate[p] = 1
                           /\ hist.finalize[p] = Count(p, engine.done)
      /\ (ph = "done") =>
           \A p \in PIDs : hist.aggregate[p] = 1 /\ hist.finalize[p] = 1

\* A run of at least 3 supersteps that has aggregated one partition and
\* not yet the other.
C5_Witness ==
  /\ engine.phase = "aggregate"
  /\ engine.superstep >= 3
  /\ Cardinality(engine.done) = 1

\* Largest finite shortest-path distance from the source (its eccentricity
\* within its connected component).
Eccentricity(g, s) ==
  Max({ShortestPath(g, s, v) : v \in 0 .. (g.nv - 1)} \ {INF_COST})

C6_SuperstepBound ==
  (pc \in {"engine_execute"} \/ (pc = "returned" /\ engine.phase = "done"))
  => /\ engine.superstep <= Eccentricity(graph, src_arg) + 2
     /\ (engine.phase \in {"aggregate", "finalize", "done"})
          => /\ engine.superstep = Eccentricity(graph, src_arg) + 2
             /\ hist.marked = {}

\* C6: every run terminates: the loop reaches a superstep in which no
\* partition marks a vertex and then stops, and the call returns; the
\* number of supersteps is the eccentricity of the source plus 2 (the
\* no-op first superstep and the final empty one).
C6_Termination ==
  /\ <>(pc = "returned")
  /\ [](C6_SuperstepBound)

\* A returned run of 4 supersteps (a source of eccentricity 2).
C6_Witness ==
  /\ pc = "returned"
  /\ engine.phase = "done"
  /\ engine.superstep = 4
  /\ Eccentricity(graph, src_arg) = 2

\* C7: between init and finalize the visited bitmap of a partition never
\* loses a bit, and a finite cost never changes.
C7_Monotonic ==
  [][\A p \in PIDs :
       (algo_state[p].alloc /\ algo_state'[p].alloc)
       => /\ algo_state[p].visited \subseteq algo_state'[p].visited
          /\ \A v \in DOMAIN algo_state[p].cost :
               algo_state[p].cost[v] # INF_COST
               => algo_state'[p].cost[v] = algo_state[p].cost[v]]_vars

\* A partition holding a vertex of cost 1 has run a later step: its level
\* has passed 2, and the cost is still 1.
C7_Witness ==
  \E p \in PIDs :
    /\ algo_state[p].alloc
    /\ algo_state[p].level >= 2
    /\ \E v \in DOMAIN algo_state[p].cost :
         algo_state[p].cost[v] = 1 /\ v \in algo_state[p].visited

AllAggregated ==
  /\ pc = "engine_execute"
  /\ engine.phase = "aggregate"
  /\ engine.done = PIDs

\* C8: once every partition has aggregated, output[map_p[v]] is the local
\* cost of v for every partition p and local vertex v; every output entry
\* has been written exactly once and holds a BFS level or INF_COST.
C8_Aggregated ==
  /\ AllAggregated =>
       \A p \in PIDs : \A v \in 0 .. (par[p].vertex_count - 1) :
         cost[par[p].map[v]] = algo_state[p].cost[v]
  /\ (AllAggregated \/ engine.phase \in {"finalize", "done"}) =>
       \A g \in 0 .. (graph.nv - 1) :
         /\ hist.writes[g] = 1
         /\ cost[g] # PreCallContent
         /\ cost[g] = INF_COST \/ cost[g] \in 0 .. (graph.nv - 1)

\* All partitions aggregated; the vertices 0 and 2 are in one partition
\* and vertex 1 in the other, with different costs for 1 and 2.
C8_Witness ==
  /\ AllAggregated
  /\ graph.nv = 3
  /\ graph.owner[0] = graph.owner[2]
  /\ graph.owner[1] # graph.owner[0]
  /\ cost[1] # cost[2]
  /\ cost[2] # INF_COST

\* C9: whenever the call has returned the global run state is empty
\* (output pointer and staging pointer null, source 0) and the staging
\* buffer is released; after a full run every partition's algo_state is
\* null.
C9_NoStateOutlivesCall ==
  (pc = "returned")
  => /\ state_g = StateGEmpty
     /\ cost_h = SortedArray({})
     /\ \A p \in PIDs : algo_state[p] = NullState

\* A full run with a non-empty GPU partition owning the source (state_g.src
\* was not 0 during the run) has returned.
C9_Witness ==
  /\ pc = "returned"
  /\ engine.phase = "done"
  /\ graph.owner[src_arg] = 1
  /\ graph.ptype[1] = "PROCESSOR_GPU"

InitCompleted ==
  \/ (pc = "engine_config" /\ engine.phase = "init" /\ engine.done = PIDs)
  \/ (/\ pc = "engine_execute" /\ engine.phase = "compute"
      /\ engine.superstep = 1 /\ engine.done = {})

\* C10: after the init of all partitions and before any step, the only
\* visited bit set in any partition is the source's local id in the
\* partition named by the partitioned source id, the source's cost is 0
\* and every other cost INF_COST, every inbox bitmap and shadow is
\* all-zero, and the level of every partition holding state is 0.
C10_AfterInit ==
  InitCompleted
  => /\ state_g.src = engine_vertex_id_in_partition(graph, src_arg)
     /\ par[GET_PARTITION_ID(state_g.src)].map[GET_VERTEX_ID(state_g.src)] = src_arg
     /\ \A p \in PIDs :
          /\ algo_state[p].alloc <=> (par[p].vertex_count # 0)
          /\ algo_state[p].alloc =>
               /\ algo_state[p].visited =
                    IF p = GET_PARTITION_ID(state_g.src)
                    THEN {GET_VERTEX_ID(state_g.src)} ELSE {}
               /\ algo_state[p].cost =
                    [v \in 0 .. (par[p].vertex_count - 1) |->
                       IF p = GET_PARTITION_ID(state_g.src)
                          /\ v = GET_VERTEX_ID(state_g.src)
                       THEN 0 ELSE INF_COST]
               /\ algo_state[p].level = 0
     /\ algo_state[GET_PARTITION_ID(state_g.src)].alloc
     /\ \A i \in PIDs : \A j \in PIDs : inbox[i][j] = {} /\ inbox_s[i][j] = {}

\* Init completed; the source is local vertex 1 of partition 1, and both
\* partitions have a non-empty inbox for the other.
C10_Witness ==
  /\ InitCompleted
  /\ state_g.src = [pid |-> 1, vid |-> 1]
  /\ par[0].inbox[1].count > 0
  /\ par[1].inbox[0].count > 0

\* C11: in every state from the end of a partition's init to its finalize,
\* a vertex's cost is finite exactly when its visited bit in its owning
\* partition is set.
C11_FiniteIffVisited ==
  \A p \in PIDs :
    algo_state[p].alloc
    => \A v \in 0 .. (par[p].vertex_count - 1) :
         (algo_state[p].cost[v] # INF_COST) <=> bitmap_is_set(algo_state[p].visited, v)

\* Aggregation time of a run in which a step of a partition not owning the
\* source marked a vertex at cost 1 and left another of its vertices
\* unvisited.
C11_Witness ==
  /\ engine.phase = "aggregate"
  /\ \E p \in PIDs :
       /\ algo_state[p].alloc
       /\ p # GET_PARTITION_ID(state_g.src)
       /\ \E v, w \in 0 .. (par[p].vertex_count - 1) :
            /\ algo_state[p].cost[v] = 1 /\ v \in algo_state[p].visited
            /\ algo_state[p].cost[w] = INF_COST /\ w \notin algo_state[p].visited

\* C12: every cost a step stores is the partition's level at the start of
\* that step plus 1, the step stores it for a vertex whose visited bit was
\* clear, and over the whole run the steps store the cost of a vertex at
\* most once and never the cost of the source.
C12_WrittenOnceAtLevel ==
  [][\A p \in PIDs : \A v \in 0 .. (par[p].vertex_count - 1) :
       LET g == par[p].map[v]
       IN  /\ hist'.step_writes[g] <= 1
           /\ (hist'.step_writes[g] # hist.step_writes[g])
              => /\ algo_state'[p].cost[v] = algo_state[p].level + 1
                 /\ ~bitmap_is_set(algo_state[p].visited, v)
                 /\ g # src_arg
           /\ (algo_state[p].alloc /\ algo_state'[p].alloc
               /\ algo_state'[p].cost[v] # algo_state[p].cost[v])
              => hist'.step_writes[g] = hist.step_writes[g] + 1]_vars

\* A partition that stored cost 1 for one of its vertices in superstep 2
\* and cost 2 for another in superstep 3 has run the step of superstep 4.
C12_Witness ==
  /\ engine.superstep = 4
  /\ \E p \in PIDs :
       /\ p \in engine.done
       /\ engine.phase = "compute"
       /\ algo_state[p].alloc
       /\ \E v, w \in 0 .. (par[p].vertex_count - 1) :
            /\ algo_state[p].cost[v] = 1 /\ hist.step_writes[par[p].map[v]] = 1
            /\ algo_state[p].cost[w] = 2 /\ hist.step_writes[par[p].map[w]] = 1

\* Partition p has run its step of the current superstep (>= 2) and no
\* communication has happened since: its frontier pointers designate what
\* the step read.
Stepped(p) ==
  /\ pc = "engine_execute"
  /\ engine.superstep >= 2
  /\ algo_state[p].alloc
  /\ \/ (engine.phase = "compute" /\ p \in engine.done)
     \/ engine.phase = "gather"

\* Partition p has a frontier bit for the global vertex u: u is its own
\* vertex, or a vertex of another partition that p has an edge into.
HasSlot(p, u) ==
  \/ graph.owner[u] = p
  \/ \E k \in DOMAIN par[graph.owner[u]].inbox[p].rmt_nbrs :
       par[graph.owner[u]].inbox[p].rmt_nbrs[k] = LocalId(graph, u)

\* The bit of the global vertex u in the frontier bitmap that partition p
\* reads for the partition of u.
FrontierBitOf(p, u) ==
  LET q == graph.owner[u]
  IN  IF q = p
      THEN bitmap_is_set(FrontierBitmap(p, algo_state[p], outbox[p], p),
                         LocalId(graph, u))
      ELSE bitmap_is_set(FrontierBitmap(p, algo_state[p], outbox[p], q),
                         IndexOf(par[q].inbox[p].rmt_nbrs, LocalId(graph, u)))

\* The step callback of some partition in superstep 1 changes neither the
\* partitions' state (visited, cost, level, tracker, frontier pointers) nor
\* the mailboxes and the output; a partition with vertices reports
\* not-finished, an empty one reports nothing.
FirstSuperstepNoOp ==
  (pc = "engine_execute" /\ engine.phase = "compute" /\ engine.superstep = 1
   /\ hist'.compute # hist.compute)
  => /\ UNCHANGED <<algo_state, inbox, inbox_s, outbox, cost, cost_h, state_g>>
     /\ \A p \in PIDs :
          (hist'.compute[p] # hist.compute[p])
          => /\ (par[p].vertex_count # 0) => (p \in hist'.reported /\ ~engine'.finished)
             /\ (par[p].vertex_count = 0) => (hist'.reported = hist.reported
                                              /\ engine'.finished = engine.finished)

\* What the steps of superstep 2 and later read for the source: the owner
\* of the source reads its bit in its own slot in superstep 2 only; a
\* partition with an edge into the source reads it in every superstep.
SourceInFrontierInputs ==
  \A p \in PIDs :
    Stepped(p)
    => /\ (p = graph.owner[src_arg])
          => (FrontierBitOf(p, src_arg) <=> (engine.superstep = 2))
       /\ (p # graph.owner[src_arg] /\ HasSlot(p, src_arg))
          => FrontierBitOf(p, src_arg)

\* C13: superstep 1 is a no-op pass (FirstSuperstepNoOp); from superstep 2
\* on every partition with an edge into the source reads the source's bit
\* in the slot of the source's partition, and the source's own partition
\* reads it in its own slot at superstep 2 and not at any later superstep.
C13_FirstSuperstepAndSource ==
  [][FirstSuperstepNoOp /\ SourceInFrontierInputs']_vars

\* C13 as stated: superstep 1 is a no-op pass and every partition that has
\* a frontier bit for the source reads it set at the step of superstep 2
\* and of every later superstep.
C13_AsStated ==
  [][/\ FirstSuperstepNoOp
     /\ (\A p \in PIDs : (Stepped(p) /\ HasSlot(p, src_arg))
                            => FrontierBitOf(p, src_arg))']_vars

\* Both partitions have run the step of superstep 3: the one with an edge
\* into the source read the source's bit, the source's own did not.
C13_Witness ==
  /\ engine.phase = "gather"
  /\ engine.superstep = 3
  /\ \E p \in PIDs :
       /\ p # graph.owner[src_arg]
       /\ Stepped(p) /\ HasSlot(p, src_arg) /\ FrontierBitOf(p, src_arg)
  /\ Stepped(graph.owner[src_arg])
  /\ ~FrontierBitOf(graph.owner[src_arg], src_arg)

\* Partition q has completed its step of superstep t.
StepDone(q, t) ==
  /\ pc = "engine_execute"
  /\ \/ engine.superstep > t
     \/ /\ engine.superstep = t
        /\ (engine.phase # "compute" \/ q \in engine.done)

\* C14: hist.visited_at[u] is the superstep in which u became visited (1
\* for the source, visited at init).  Once the partition of a neighbour v
\* of u has completed the step of the superstep after that one, v is
\* visited, no later than in that superstep, with the cost of the superstep
\* it was visited in; and the superstep after the one u was visited in
\* always takes place.
C14_NeighbourNextSuperstep ==
  /\ \A u \in 0 .. (graph.nv - 1) : \A v \in Nbrs(graph, u) :
       (hist.visited_at[u] # 0 /\ StepDone(graph.owner[v], hist.visited_at[u] + 1))
       => LET q  == graph.owner[v]
              lv == LocalId(graph, v)
          IN  /\ hist.visited_at[v] \in 1 .. (hist.visited_at[u] + 1)
              /\ algo_state[q].alloc
                 => /\ bitmap_is_set(algo_state[q].visited, lv)
                    /\ algo_state[q].cost[lv] = hist.visited_at[v] - 1
  /\ (engine.phase \in {"aggregate", "finalize", "done"})
     => \A u \in 0 .. (graph.nv - 1) : hist.visited_at[u] < engine.superstep

\* A vertex visited in superstep 2 and a neighbour of it in the other
\* partition visited in superstep 3, at cost 2.
C14_Witness ==
  /\ pc = "engine_execute"
  /\ \E u \in 0 .. (graph.nv - 1) : \E v \in Nbrs(graph, u) :
       /\ hist.visited_at[u] = 2 /\ hist.visited_at[v] = 3
       /\ graph.owner[u] # graph.owner[v]
       /\ algo_state[graph.owner[v]].alloc
       /\ algo_state[graph.owner[v]].cost[LocalId(graph, v)] = 2

\* C15: in the step phase of superstep s >= 2, the frontier slot that a
\* partition j reads for another partition has the bit of a vertex u set
\* exactly when u was visited by the end of superstep s-1 (for the vertices
\* j has a bit for); and every read a worker made so far (of its own
\* visited bit, of the frontier bits of its neighbours) returned a set bit
\* only for a vertex visited by the end of the previous superstep
\* (hist.stale_reads), whatever the interleaving of the workers.
C15_StaleView ==
  /\ hist.stale_reads
  /\ (pc = "engine_execute" /\ engine.phase = "compute" /\ engine.superstep >= 2)
     => \A j \in PIDs : \A u \in 0 .. (graph.nv - 1) :
          (algo_state[j].alloc /\ graph.owner[u] # j /\ HasSlot(j, u))
          => (FrontierBitOf(j, u)
              <=> hist.visited_at[u] \in 1 .. (engine.superstep - 1))

\* A worker has read the frontier bit of a vertex of another partition
\* that a worker of that partition had already marked in the same
\* superstep, and found it clear.
C15_Witness ==
  /\ engine.phase = "compute"
  /\ "remote" \in hist.unseen

\* Partition p has begun its step of the current superstep (>= 2): the
\* frontier is published and the scan is under way or over.
StepBegun(p) ==
  /\ algo_state[p].alloc
  /\ \/ work[p].at = "step"
     \/ Stepped(p)

\* C16: from the start of the scan of superstep s >= 2 to the end of the
\* superstep, the own frontier slot of a partition is the tracker's current
\* bitmap, and that holds exactly the partition's vertices that became
\* visited in superstep s-1 (at superstep 2: the source, visited at init,
\* if the partition owns it); a vertex the scan marks during superstep s is
\* not in it.
C16_OwnSlotIsDelta ==
  \A p \in PIDs :
    StepBegun(p)
    => /\ algo_state[p].frontier[p] = "CURRENT"
       /\ FrontierBitmap(p, algo_state[p], outbox[p], p)
            = algo_state[p].frontier_state.current
       /\ algo_state[p].frontier_state.current
            = {v \in 0 .. (par[p].vertex_count - 1) :
                 hist.visited_at[par[p].map[v]] = engine.superstep - 1}
       /\ (engine.superstep = 2)
          => algo_state[p].frontier_state.current
               = IF p = graph.owner[src_arg] THEN {LocalId(graph, src_arg)} ELSE {}

\* The scan of superstep 3 of a partition is under way: its own slot holds
\* the vertex it marked in superstep 2 and not the one a worker has just
\* marked.
C16_Witness ==
  /\ engine.superstep = 3
  /\ \E p \in PIDs :
       /\ work[p].at = "step"
       /\ \E v, w \in 0 .. (par[p].vertex_count - 1) :
            /\ hist.visited_at[par[p].map[v]] = 2
            /\ hist.visited_at[par[p].map[w]] = 3
            /\ v \in algo_state[p].frontier_state.current
            /\ w \in algo_state[p].visited
            /\ w \notin algo_state[p].frontier_state.current

C18_NotFinishedIsNewVisits ==
  [][/\ \A p \in PIDs :
          (hist'.compute[p] # hist.compute[p])
          => /\ (engine.superstep = 1)
                => ((p \in hist'.reported) <=> (par[p].vertex_count # 0))
             /\ (engine.superstep >= 2)
                => ((p \in hist'.reported)
                    <=> (/\ algo_state[p].alloc
                         /\ algo_state'[p].visited # algo_state[p].visited))
             /\ engine'.finished = (engine.finished /\ p \notin hist'.reported)
     /\ (engine.phase = "gather" /\ engine'.phase # "gather")
        => /\ (engine.superstep >= 2) => (hist.reported = hist.marked)
           /\ engine.finished <=> (hist.reported = {})
           /\ (hist.reported # {})
              => (engine'.phase = "compute"
                  /\ engine'.superstep = engine.superstep + 1)
           /\ (hist.reported = {})
              => (engine'.phase = "aggregate"
                  /\ engine'.superstep = engine.superstep)]_vars

\* Both partitions have vertices and have run the step of superstep 3: one
\* marked a vertex and reported not-finished, the other did neither.
C18_Witness ==
  /\ engine.phase = "gather"
  /\ engine.superstep = 3
  /\ \A p \in PIDs : algo_state[p].alloc
  /\ Cardinality(hist.marked) = 1
  /\ hist.reported = hist.marked
  /\ ~engine.finished

\* The state of partition p and its finished result at the end of a step
\* are those of the step function applied to the state at its start.
StepIsFunctionOfStart(p) ==
  LET r == bfs(par[p], work[p].start, engine.superstep, outbox[p], TRUE)
  IN  /\ algo_state'[p] = r.state
      /\ work[p].finished = r.finished

\* Only the worker of a vertex writes its visited bit and its cost: they
\* change only in the transition that takes the vertex out of the pending
\* iterations of the step.
OneWriterPerVertex(p) ==
  (algo_state[p].alloc /\ algo_state'[p].alloc)
  => \A v \in 0 .. (par[p].vertex_count - 1) :
       (\/ algo_state'[p].cost[v] # algo_state[p].cost[v]
        \/ bitmap_is_set(algo_state'[p].visited, v)
             # bitmap_is_set(algo_state[p].visited, v))
       => /\ work[p].at = "step" /\ v \in work[p].pending
          /\ v \notin work'[p].pending
          /\ hist'.step_writes[par[p].map[v]] = 1

\* When every partition has completed the step of superstep s >= 2 the
\* visited vertices are those at distance at most s-1 from the source and
\* their costs are their distances; the returned output is the distance.
SuperstepResult ==
  /\ (pc = "engine_execute" /\ engine.phase = "gather" /\ engine.superstep >= 2)
     => \A p \in PIDs : \A v \in 0 .. (par[p].vertex_count - 1) :
          LET d == ShortestPath(graph, src_arg, par[p].map[v])
          IN  /\ bitmap_is_set(algo_state[p].visited, v)
                 <=> (d <= engine.superstep - 1)
              /\ algo_state[p].cost[v]
                 = IF d <= engine.superstep - 1 THEN d ELSE INF_COST
  /\ (pc = "returned" /\ engine.phase = "done")
     => \A v \in 0 .. (graph.nv - 1) : cost[v] = ShortestPath(graph, src_arg, v)

\* C19: for every interleaving of the workers of a step and of the steps
\* of the partitions, and every order of a vertex's edges, the state a
\* step leaves is the one function of its start state, the visited sets and
\* costs after each superstep and the returned output are fixed by the
\* graph, the partitioning and the source, and each vertex's visited bit
\* and cost are written by its own worker only, at most once.
C19_Deterministic ==
  [][/\ \A p \in PIDs :
          /\ (work[p].at = "step" /\ work'[p] = WorkIdle) => StepIsFunctionOfStart(p)
          /\ OneWriterPerVertex(p)
     /\ SuperstepResult']_vars

\* The steps of superstep 2 or later of two partitions with vertices are
\* over; a worker had read the frontier bit of a vertex of its own
\* partition after another worker had marked that vertex in the same step.
C19_Witness ==
  /\ engine.phase = "compute"
  /\ engine.done = PIDs
  /\ \A p \in PIDs : algo_state[p].alloc
  /\ "local" \in hist.unseen
  /\ hist.marked # {}

\* The output holds, for every partition p and local vertex v, the local
\* cost of v at the global id map_p[v].
OutputIsLocalCosts ==
  \A p \in PIDs : \A v \in 0 .. (par[p].vertex_count - 1) :
    cost[par[p].map[v]] = algo_state[p].cost[v]

StepDue(p) ==
  /\ pc = "engine_execute"
  /\ engine.phase = "compute"
  /\ p \notin engine.done
  /\ work[p] = WorkIdle

\* The result of the step of partition p on the present state, and of the
\* step run once more on what the first run left, in the same superstep
\* and with the same remote frontier slots.
StepOnce(p) ==
  bfs(par[p], algo_state[p], engine.superstep, outbox[p], engine.finished)
StepTwice(p) ==
  bfs(par[p], StepOnce(p).state, engine.superstep, outbox[p],
      StepOnce(p).finished)

\* The second run of the step leaves the partition's state and the
\* engine's finished flag as the first run left them.
StepIdempotent(p) ==
  /\ StepTwice(p).state = StepOnce(p).state
  /\ StepTwice(p).finished = StepOnce(p).finished

\* The gather callback of partition p is about to run.
GatherDue(p) ==
  /\ pc = "engine_execute"
  /\ engine.phase = "gather"
  /\ p \notin engine.done

\* The inboxes of p after one gather and after a second one on top of it.
GatherOnce(p) == bfs_gather(par[p], algo_state[p], inbox[p])
GatherTwice(p) == bfs_gather(par[p], algo_state[p], GatherOnce(p))
GatherIdempotent(p) == GatherTwice(p) = GatherOnce(p)

\* The aggregate callback of partition p is about to run.
AggregateDue(p) ==
  /\ pc = "engine_execute"
  /\ engine.phase = "aggregate"
  /\ p \notin engine.done
  /\ work[p] = WorkIdle

\* The staging buffer and the output after one aggregate of p and after a
\* second one on top of it.
AggregateOnce(p) ==
  bfs_aggregate(par[p], algo_state[p], state_g, cost_h, cost)
AggregateTwice(p) ==
  bfs_aggregate(par[p], algo_state[p], state_g,
                AggregateOnce(p).cost_h, AggregateOnce(p).cost)
AggregateIdempotent(p) ==
  /\ AggregateTwice(p).cost = AggregateOnce(p).cost
  /\ AggregateTwice(p).cost_h = AggregateOnce(p).cost_h

\* C21: gather and aggregate are idempotent: run a second time for the same
\* partition right after the first, they leave the inboxes, the staging
\* buffer and the output as the first run left them (the partition's state
\* they do not write at all).  The step is idempotent exactly for a
\* partition without vertices and in superstep 1; from superstep 2 on a
\* second run raises the level once more than the first did.
C21_IdempotentButStep ==
  \A p \in PIDs :
    /\ GatherDue(p) => GatherIdempotent(p)
    /\ AggregateDue(p) => AggregateIdempotent(p)
    /\ StepDue(p) =>
         /\ StepIdempotent(p)
              <=> (par[p].vertex_count = 0 \/ engine.superstep = 1)
         /\ ~StepIdempotent(p) =>
              StepTwice(p).state.level = StepOnce(p).state.level + 1

\* C21 as stated: step, gather and aggregate are all idempotent.
C21_AsStated ==
  \A p \in PIDs :
    /\ StepDue(p) => StepIdempotent(p)
    /\ GatherDue(p) => GatherIdempotent(p)
    /\ AggregateDue(p) => AggregateIdempotent(p)

\* A gather is due that sets an inbox bit which was clear, so the first
\* run acts and the second has nothing left to do.
C21_Witness ==
  \E p \in PIDs :
    /\ GatherDue(p)
    /\ GatherOnce(p) # inbox[p]
    /\ GatherIdempotent(p)

\* The level every partition that holds state has at this point of the
\* run: 0 through init and superstep 1, s - 2 until its step of superstep
\* s >= 2 has run, s - 1 from then to the end of the superstep and, after
\* the last superstep, until finalize.
LevelNow(p) ==
  IF engine.superstep <= 1 THEN 0
  ELSE IF engine.phase = "compute" /\ p \notin engine.done
  THEN engine.superstep - 2
  ELSE engine.superstep - 1

LevelsInLockstep ==
  \A p \in PIDs : algo_state[p].alloc => algo_state[p].level = LevelNow(p)

\* What the step of partition p, taken in this transition, did to the
\* level and which costs it stored.
StepLevelAndCosts(p) ==
  (hist'.compute[p] # hist.compute[p]) =>
    /\ par[p].vertex_count = 0 => algo_state'[p] = algo_state[p]
    /\ (par[p].vertex_count # 0 /\ engine.superstep = 1) =>
         algo_state'[p].level = algo_state[p].level
    /\ (par[p].vertex_count # 0 /\ engine.superstep >= 2) =>
         /\ algo_state[p].level = engine.superstep - 2
         /\ algo_state'[p].level = algo_state[p].level + 1
         /\ \A v \in algo_state'[p].visited \ algo_state[p].visited :
              algo_state'[p].cost[v] = engine.superstep - 1

\* C22: levels advance in lockstep.  A partition with vertices has level 0
\* after init and through superstep 1 and level s - 2 when its step of
\* superstep s >= 2 starts; every cost a step of superstep s stores is
\* s - 1; the step raises the level by exactly one in every superstep from
\* the second on, whether or not it visited a vertex, and nothing else
\* changes the level.
C22_LevelsInLockstep ==
  [][(\A p \in PIDs : StepLevelAndCosts(p)) /\ LevelsInLockstep']_vars

\* In a superstep after the second, a partition with vertices has taken
\* its step without visiting anything and stands at level s - 1, while
\* the other partition visited a vertex in the same superstep.
C22_Witness ==
  /\ engine.phase = "compute"
  /\ engine.superstep >= 3
  /\ \E p, q \in PIDs :
       /\ p # q
       /\ {p, q} \subseteq engine.done
       /\ par[p].vertex_count # 0
       /\ p \notin hist.marked
       /\ q \in hist.marked
       /\ algo_state[p].level = engine.superstep - 1
       /\ algo_state[q].level = engine.superstep - 1
       /\ \E v \in algo_state[q].visited :
            algo_state[q].cost[v] = engine.superstep - 1

\* A callback of partition p runs in this transition.
CallbackOf(p) ==
  \/ hist'.init[p] # hist.init[p]
  \/ hist'.compute[p] # hist.compute[p]
  \/ hist'.gather[p] # hist.gather[p]
  \/ hist'.aggregate[p] # hist.aggregate[p]
  \/ hist'.finalize[p] # hist.finalize[p]

\* The transition changes nothing but the engine's record of which
\* partitions have had their callback in this phase.
OnlyMarkedDone(p) ==
  /\ engine' = [engine EXCEPT !.done = engine.done \cup {p}]
  /\ UNCHANGED <<algo_state, inbox, inbox_s, outbox, cost, cost_h, state_g,
                 pc, rc>>
  /\ hist'.writes = hist.writes
  /\ hist'.reported = hist.reported

\* An empty partition holds no state and has not reported not-finished;
\* whenever the finished flag is cleared, a partition with vertices
\* cleared it.
EmptyPartitionsInert ==
  /\ \A p \in PIDs : par[p].vertex_count = 0 =>
       /\ algo_state[p] = NullState
       /\ p \notin hist.reported
  /\ (pc = "engine_execute" /\ ~engine.finished) =>
       \E q \in hist.reported : par[q].vertex_count # 0

\* C23: a partition with zero vertices is inert.  Each of its callbacks
\* (init, step, gather, aggregate, finalize) leaves every partition's
\* state, the mailboxes, the output, the staging buffer and the finished
\* flag as they were; it holds no state at any time, never reports
\* not-finished, stores no output entry, and the superstep loop continues
\* only when a partition with vertices reported not-finished.
C23_EmptyPartitionInert ==
  [][(\A p \in PIDs :
        (par[p].vertex_count = 0 /\ CallbackOf(p)) => OnlyMarkedDone(p))
     /\ EmptyPartitionsInert']_vars

\* A run over several supersteps is in its finalize phase and a partition
\* with zero vertices has had every callback: init, the step of three
\* supersteps or more, gather, aggregate and finalize.
C23_Witness ==
  /\ engine.phase = "finalize"
  /\ engine.superstep >= 3
  /\ \E p \in PIDs :
       /\ par[p].vertex_count = 0
       /\ p \in engine.done
       /\ hist.init[p] = 1
       /\ hist.compute[p] = engine.superstep
       /\ hist.gather[p] = engine.superstep
       /\ hist.aggregate[p] = 1
       /\ hist.finalize[p] = 1

\* The partitions on a GPU that have vertices.
GpuPartitions ==
  {p \in PIDs : par[p].type = "PROCESSOR_GPU" /\ par[p].vertex_count # 0}

\* From the return of engine_config to the clean-up: the staging buffer is
\* allocated exactly if a GPU partition has vertices and then has room for
\* the vertices of every GPU partition; the output pointer is set.
StagingWhileExecuting ==
  (pc = "engine_execute") =>
    /\ (state_g.cost_h = "ALLOCATED") <=> (GpuPartitions # {})
    /\ (state_g.cost_h # "ALLOCATED") => (state_g.cost_h = "NULL")
    /\ \A p \in GpuPartitions :
         /\ Cardinality(DOMAIN cost_h) >= par[p].vertex_count
         /\ Cardinality(DOMAIN cost_h) = engine_largest_gpu_partition(par)
    /\ state_g.cost = "OUT"

\* The staging buffer is allocated at most once in a call and released at
\* most once, after its allocation; a call that has returned has released
\* what it allocated, which is one buffer exactly if the run went through
\* the engine with a GPU partition that has vertices, and left no pointer.
StagingLifetime ==
  /\ hist.frees <= hist.mallocs
  /\ hist.mallocs <= 1
  /\ (pc = "engine_execute") =>
       /\ hist.frees = 0
       /\ hist.mallocs = IF GpuPartitions # {} THEN 1 ELSE 0
  /\ (pc = "returned") =>
       /\ hist.frees = hist.mallocs
       /\ hist.mallocs = IF EngineRan /\ GpuPartitions # {} THEN 1 ELSE 0
       /\ state_g.cost_h = "NULL"

\* What holds when the aggregate callback of partition p starts, p having
\* vertices.
AggregatePre(p) ==
  (hist'.aggregate[p] # hist.aggregate[p] /\ par[p].vertex_count # 0) =>
    /\ (par[p].type = "PROCESSOR_GPU") =>
         /\ state_g.cost_h = "ALLOCATED"
         /\ Cardinality(DOMAIN cost_h) >= par[p].vertex_count
    /\ state_g.cost # "NULL"
    /\ hist'.asserts

\* C24: in a run that passed the special-case check no assertion of the
\* aggregation fails.  When aggregate starts for a GPU partition with
\* vertices the staging buffer is allocated, with one slot per vertex of
\* the largest GPU partition and so at least as many as the partition has
\* vertices; when it starts for any partition with vertices the output
\* pointer is non-null.  The buffer is allocated exactly if a GPU partition
\* has vertices, and is released exactly once, before the call returns.
C24_AggregationAsserts ==
  [][(\A p \in PIDs : AggregatePre(p))
     /\ (hist'.frees # hist.frees => state_g.cost_h = "ALLOCATED")
     /\ StagingWhileExecuting' /\ StagingLifetime' /\ hist'.asserts]_vars

\* A call with two GPU partitions of different sizes has returned: the
\* smaller one aggregated through the buffer sized for the larger one, the
\* buffer was allocated once and released once.
C24_Witness ==
  /\ pc = "returned"
  /\ EngineRan
  /\ rc = "SUCCESS"
  /\ \A p \in PIDs : par[p].type = "PROCESSOR_GPU"
  /\ \E p, q \in PIDs : 0 < par[p].vertex_count
                        /\ par[p].vertex_count < par[q].vertex_count
  /\ \A p \in PIDs : hist.aggregate[p] = 1
  /\ hist.mallocs = 1
  /\ hist.frees = 1
  /\ hist.asserts

====
